---- MODULE Spec2Model ----
(***************************************************************************)
(* Model of dl_har_model: the evaluation driver of src/eval.py             *)
(* (eval_model, eval_one_epoch) and the tensor-shape behaviour of the      *)
(* forward pass of src/models/AttendAndDiscriminate.py.                    *)
(*                                                                         *)
(* Numbers are abstracted as follows.  A loss is an integer (a fixed-point *)
(* unit), an average or an accuracy is the exact fraction <<num, den>>,    *)
(* a tensor is its shape (a tuple of dimension sizes), a label array is    *)
(* the sequence of its labels.                                             *)
(***************************************************************************)
EXTENDS Integers, Sequences, FiniteSets, TLC

\* ---------------------------------------------------------------- bounds
MaxN == 3          \* samples in the evaluated dataset: 0..MaxN
MaxBatchSize == 2  \* batch_size: 1..MaxBatchSize
MaxW == 2          \* window length (time dimension of a batch): 1..MaxW

Labels == {0, 1}   \* class indices
Losses == {1, 2}   \* values of loss.item()
Prefixes == {"train", "val", "test"}
None == "None"      \* no exception
NoValue == <<>>     \* a name that holds no value yet
Unbound == <<>>     \* the local `data` before the loop binds it

\* ------------------------------------------------------------- variables
VARIABLES
    caller,        \* which function was entered: "eval_model" or "eval_one_epoch"
    pc,            \* position in eval_model / eval_one_epoch
    dataset,       \* loader.dataset: [prefix, targets, W]
    batch_size,    \* the loader's batch size
    return_preds,  \* flag of eval_one_epoch
    return_pairs,  \* flag of eval_one_epoch
    checkpoint,    \* what is on disk at <path_checkpoints>/checkpoint_best.pth
    loaded,        \* model.load_state_dict has restored the parameters
    training,      \* model.training
    grad_enabled,  \* torch.is_grad_enabled()
    batch_idx,     \* batches the for loop has consumed
    data,          \* shape of the local `data` (Unbound before the first batch)
    losses,        \* the AverageMeter
    y_true,        \* list of per-batch target arrays
    y_pred,        \* list of per-batch prediction arrays
    cat,           \* <<y_true, y_pred>> after np.concatenate, or NoValue
    eoe_ret,       \* value returned by eval_one_epoch, or NoValue
    em_ret,        \* value returned by eval_model, or NoValue
    error,         \* exception that propagated out, or None
    \* history (not read by the program)
    forward_log,   \* one entry per model(data) call: [idx, training, grad]
    update_log,    \* one entry per losses.update call: <<val, n>>
    batch_log,     \* one entry per batch: [loss, n, preds, target]
    load_calls,    \* number of torch.load calls
    \* forward pass of AttendAndDiscriminate, on tensor shapes
    cfg,           \* constructor arguments of the model
    fpc,           \* position in forward
    x,             \* shape of the tensor flowing through forward
    t,             \* time steps the self-attention loop has handled
    refined,       \* shapes the self-attention loop has produced
    z,             \* shape of the returned embedding, or NoValue
    logits,        \* shape of the returned logits, or NoValue
    shape_log      \* history: [op, in, out] of every layer applied

evalVars == <<caller, pc, dataset, batch_size, return_preds, return_pairs,
              checkpoint, loaded, training, grad_enabled, batch_idx, data,
              losses, y_true, y_pred, cat, eoe_ret, em_ret, error,
              forward_log, update_log, batch_log, load_calls>>

fwdVars == <<cfg, fpc, x, t, refined, z, logits, shape_log>>

vars == <<evalVars, fwdVars>>

\* ----------------------------------------------------------- sequences
SeqsUpTo(S, n) == UNION {[1..k -> S] : k \in 0..n}
SeqsOfLen(S, n) == [1..n -> S]

RECURSIVE Flatten(_)
\* np.concatenate(list, 0) of one-dimensional arrays
Flatten(list) ==
    IF list = <<>> THEN <<>> ELSE Head(list) \o Flatten(Tail(list))

\* ------------------------------------------------------------ DataLoader
\* DataLoader(eval_data, batch_size, False): consecutive batches, the last
\* one possibly short, no batch when the dataset is empty.
NumSamples == Len(dataset.targets)
NumBatches == (NumSamples + batch_size - 1) \div batch_size
BatchFirst(k) == (k - 1) * batch_size + 1
BatchLast(k) == IF k * batch_size < NumSamples THEN k * batch_size ELSE NumSamples
BatchTarget(k) == SubSeq(dataset.targets, BatchFirst(k), BatchLast(k))
\* data of batch k has shape (n, W): the channel dimension plays no role here
BatchData(k) == <<BatchLast(k) - BatchFirst(k) + 1, dataset.W>>

\* --------------------------------------------------------- AverageMeter
\* The running mean tracker ("Loss").  avg is the fraction <<sum, count>>;
\* with no observation it is <<0, 0>>, the undefined 0/0.
AverageMeter == [val |-> 0, sum |-> 0, count |-> 0, avg |-> <<0, 0>>]

AverageMeterUpdate(m, val, n) ==
    [val |-> val,
     sum |-> m.sum + val * n,
     count |-> m.count + n,
     avg |-> <<m.sum + val * n, m.count + n>>]

\* ---------------------------------------------------------- eval_one_epoch
\* variant: every batch weighs 1 (losses.update(loss.item()))
UpdateArgs_UnitWeight(loss, d) == <<loss, 1>>

\* losses.update(loss.item(), data.shape[0]): the arguments of the call
UpdateArgs(loss, d) == <<loss, d[1]>>

\* variant: ws = data.shape[1]
ws_WholeWindow(d) == d[2]

\* ws = data.shape[1] - 1
ws(d) == d[2] - 1

\* samples_invalid = [y_true[0][0]] * ws
samples_invalid(yt, w) == [i \in 1..w |-> yt[1][1]]

\* variant: the predictions are padded with the first prediction
PadPred_FirstPrediction(yp, s) == Append(yp, [i \in DOMAIN s |-> yp[1][1]])

\* y_true.append(samples_invalid); y_pred.append(samples_invalid)
PadTrue(yt, s) == Append(yt, s)
PadPred(yp, s) == Append(yp, s)

\* loader.dataset.prefix == "test"
IsTestSplit(d) == d.prefix = "test"

\* variant: an empty list concatenates to an empty array
CanConcatenate_Always(list) == TRUE

\* np.concatenate raises ValueError on an empty list of arrays
CanConcatenate(list) == list # <<>>

\* metrics.accuracy_score: the fraction of positions where both agree
accuracy_score(yt, yp) ==
    <<Cardinality({i \in 1..Len(yt) : yt[i] = yp[i]}), Len(yt)>>

\* metrics.f1_score: kept as the per-class (tp, fp, fn) counts it is a
\* function of, with the averaging mode
f1_score(yt, yp, average) ==
    [average |-> average,
     counts |-> [c \in Labels |->
        <<Cardinality({i \in 1..Len(yt) : yt[i] = c /\ yp[i] = c}),
          Cardinality({i \in 1..Len(yt) : yt[i] # c /\ yp[i] = c}),
          Cardinality({i \in 1..Len(yt) : yt[i] = c /\ yp[i] # c})>>]]

\* variant: return_pairs is tested first
ReturnValue_PairsFirst(rp, rq, loss, acc, fm, fw, yt, yp) ==
    IF rq THEN <<loss, acc, fm, fw, [pair |-> <<yt, yp>>]>>
    ELSE IF rp THEN <<loss, acc, fm, fw, [y_pred |-> yp]>>
    ELSE <<loss, acc, fm, fw>>

\* the if / elif / else of the return
ReturnValue(rp, rq, loss, acc, fm, fw, yt, yp) ==
    IF rp THEN <<loss, acc, fm, fw, [y_pred |-> yp]>>
    ELSE IF rq THEN <<loss, acc, fm, fw, [pair |-> <<yt, yp>>]>>
    ELSE <<loss, acc, fm, fw>>

\* ------------------------------------------------------------------ Init
EvalInit ==
    /\ caller \in {"eval_model", "eval_one_epoch"}
    /\ pc = IF caller = "eval_model" THEN "torch_load" ELSE "enter_epoch"
    /\ dataset \in [prefix : Prefixes, targets : SeqsUpTo(Labels, MaxN), W : 1..MaxW]
    /\ batch_size \in 1..MaxBatchSize
    \* eval_model passes return_preds=True and leaves return_pairs at False
    /\ return_preds \in IF caller = "eval_model" THEN {TRUE} ELSE BOOLEAN
    /\ return_pairs \in IF caller = "eval_model" THEN {FALSE} ELSE BOOLEAN
    /\ checkpoint \in IF caller = "eval_model"
                      THEN {"ok", "missing_file", "missing_key", "mismatch"}
                      ELSE {"ok"}
    /\ loaded = FALSE
    /\ training = TRUE
    /\ grad_enabled = TRUE
    /\ batch_idx = 0
    /\ data = Unbound
    /\ losses = NoValue
    /\ y_true = <<>>
    /\ y_pred = <<>>
    /\ cat = NoValue
    /\ eoe_ret = NoValue
    /\ em_ret = NoValue
    /\ error = None
    /\ forward_log = <<>>
    /\ update_log = <<>>
    /\ batch_log = <<>>
    /\ load_calls = 0

Raise(e) ==
    /\ pc' = "raised"
    /\ error' = e

\* ------------------------------------------------------------ eval_model
\* checkpoint = torch.load(path_checkpoint)
TorchLoad ==
    /\ pc = "torch_load"
    /\ load_calls' = load_calls + 1
    /\ IF checkpoint = "missing_file"
       THEN Raise("FileNotFoundError")
       ELSE pc' = "load_state_dict" /\ error' = error
    /\ UNCHANGED fwdVars
    /\ UNCHANGED <<caller, dataset, batch_size, return_preds, return_pairs,
                   checkpoint, loaded, training, grad_enabled, batch_idx, data,
                   losses, y_true, y_pred, cat, eoe_ret, em_ret,
                   forward_log, update_log, batch_log>>

\* variant: a failed load is swallowed and evaluation goes on
LoadStateDict_Swallowed ==
    /\ pc = "load_state_dict"
    /\ pc' = "enter_epoch"
    /\ loaded' = (checkpoint = "ok")
    /\ UNCHANGED fwdVars
    /\ UNCHANGED <<caller, dataset, batch_size, return_preds, return_pairs,
                   checkpoint, training, grad_enabled, batch_idx, data,
                   losses, y_true, y_pred, cat, eoe_ret, em_ret, error,
                   forward_log, update_log, batch_log, load_calls>>

\* model.load_state_dict(checkpoint["model_state_dict"])
LoadStateDict ==
    /\ pc = "load_state_dict"
    /\ CASE checkpoint = "missing_key" -> Raise("KeyError") /\ loaded' = loaded
         [] checkpoint = "mismatch" -> Raise("RuntimeError") /\ loaded' = loaded
         [] OTHER -> pc' = "enter_epoch" /\ error' = error /\ loaded' = TRUE
    /\ UNCHANGED fwdVars
    /\ UNCHANGED <<caller, dataset, batch_size, return_preds, return_pairs,
                   checkpoint, training, grad_enabled, batch_idx, data,
                   losses, y_true, y_pred, cat, eoe_ret, em_ret,
                   forward_log, update_log, batch_log, load_calls>>

\* ---------------------------------------------------------- eval_one_epoch
\* variant: model.eval() is not called
ModelEval_NoEvalMode ==
    /\ pc = "enter_epoch"
    /\ losses' = AverageMeter
    /\ y_true' = <<>>
    /\ y_pred' = <<>>
    /\ pc' = "no_grad"
    /\ UNCHANGED fwdVars
    /\ UNCHANGED <<caller, dataset, batch_size, return_preds, return_pairs,
                   checkpoint, loaded, training, grad_enabled, batch_idx, data,
                   cat, eoe_ret, em_ret, error,
                   forward_log, update_log, batch_log, load_calls>>

\* losses = AverageMeter("Loss"); y_true, y_pred = [], []; model.eval()
ModelEval ==
    /\ pc = "enter_epoch"
    /\ losses' = AverageMeter
    /\ y_true' = <<>>
    /\ y_pred' = <<>>
    /\ training' = FALSE
    /\ pc' = "no_grad"
    /\ UNCHANGED fwdVars
    /\ UNCHANGED <<caller, dataset, batch_size, return_preds, return_pairs,
                   checkpoint, loaded, grad_enabled, batch_idx, data,
                   cat, eoe_ret, em_ret, error,
                   forward_log, update_log, batch_log, load_calls>>

\* with torch.no_grad():
EnterNoGrad ==
    /\ pc = "no_grad"
    /\ grad_enabled' = FALSE
    /\ pc' = "loop"
    /\ UNCHANGED fwdVars
    /\ UNCHANGED <<caller, dataset, batch_size, return_preds, return_pairs,
                   checkpoint, loaded, training, batch_idx, data,
                   losses, y_true, y_pred, cat, eoe_ret, em_ret, error,
                   forward_log, update_log, batch_log, load_calls>>

\* one iteration of the for loop: the forward call, the criterion, the
\* accumulator update, the argmax and the two appends
Batch ==
    /\ pc = "loop"
    /\ batch_idx < NumBatches
    /\ LET k == batch_idx + 1
           d == BatchData(k)
           target == BatchTarget(k)
       IN \E predictions \in SeqsOfLen(Labels, d[1]), loss \in Losses :
            LET args == UpdateArgs(loss, d)
            IN /\ batch_idx' = k
               /\ data' = d
               /\ forward_log' = Append(forward_log,
                      [idx |-> k, training |-> training, grad |-> grad_enabled])
               /\ losses' = AverageMeterUpdate(losses, args[1], args[2])
               /\ update_log' = Append(update_log, args)
               /\ y_pred' = Append(y_pred, predictions)
               /\ y_true' = Append(y_true, target)
               /\ batch_log' = Append(batch_log,
                      [loss |-> loss, n |-> d[1],
                       predictions |-> predictions, target |-> target])
    /\ UNCHANGED fwdVars
    /\ UNCHANGED <<caller, pc, dataset, batch_size, return_preds, return_pairs,
                   checkpoint, loaded, training, grad_enabled,
                   cat, eoe_ret, em_ret, error, load_calls>>

\* the loader is exhausted; the no_grad block ends
ExitLoop ==
    /\ pc = "loop"
    /\ batch_idx = NumBatches
    /\ grad_enabled' = TRUE
    /\ pc' = "pad"
    /\ UNCHANGED fwdVars
    /\ UNCHANGED <<caller, dataset, batch_size, return_preds, return_pairs,
                   checkpoint, loaded, training, batch_idx, data,
                   losses, y_true, y_pred, cat, eoe_ret, em_ret, error,
                   forward_log, update_log, batch_log, load_calls>>

\* if loader.dataset.prefix == "test": ... (`data` is a local the loop binds)
Pad ==
    /\ pc = "pad"
    /\ IF IsTestSplit(dataset)
       THEN IF data = Unbound
            THEN Raise("UnboundLocalError") /\ UNCHANGED <<y_true, y_pred>>
            ELSE LET s == samples_invalid(y_true, ws(data))
                 IN /\ y_true' = PadTrue(y_true, s)
                    /\ y_pred' = PadPred(y_pred, s)
                    /\ pc' = "concatenate"
                    /\ error' = error
       ELSE pc' = "concatenate" /\ UNCHANGED <<y_true, y_pred, error>>
    /\ UNCHANGED fwdVars
    /\ UNCHANGED <<caller, dataset, batch_size, return_preds, return_pairs,
                   checkpoint, loaded, training, grad_enabled, batch_idx, data,
                   losses, cat, eoe_ret, em_ret,
                   forward_log, update_log, batch_log, load_calls>>

\* y_true = np.concatenate(y_true, 0); y_pred = np.concatenate(y_pred, 0)
Concatenate ==
    /\ pc = "concatenate"
    /\ IF CanConcatenate(y_true) /\ CanConcatenate(y_pred)
       THEN /\ cat' = <<Flatten(y_true), Flatten(y_pred)>>
            /\ pc' = "metrics"
            /\ error' = error
       ELSE Raise("ValueError") /\ cat' = cat
    /\ UNCHANGED fwdVars
    /\ UNCHANGED <<caller, dataset, batch_size, return_preds, return_pairs,
                   checkpoint, loaded, training, grad_enabled, batch_idx, data,
                   losses, y_true, y_pred, eoe_ret, em_ret,
                   forward_log, update_log, batch_log, load_calls>>

\* acc, fm, fw and the return
MetricsReturn ==
    /\ pc = "metrics"
    /\ eoe_ret' = ReturnValue(return_preds, return_pairs, losses.avg,
                              accuracy_score(cat[1], cat[2]),
                              f1_score(cat[1], cat[2], "macro"),
                              f1_score(cat[1], cat[2], "weighted"),
                              cat[1], cat[2])
    /\ pc' = IF caller = "eval_model" THEN "eval_model_return" ELSE "done"
    /\ UNCHANGED fwdVars
    /\ UNCHANGED <<caller, dataset, batch_size, return_preds, return_pairs,
                   checkpoint, loaded, training, grad_enabled, batch_idx, data,
                   losses, y_true, y_pred, cat, em_ret, error,
                   forward_log, update_log, batch_log, load_calls>>

\* ------------------------------------------------------------ eval_model
\* loss_test, acc_test, fm_test, fw_test, preds = eval_one_epoch(...);
\* return loss_test, acc_test, fm_test, fw_test, elapsed, preds
EvalModelReturn ==
    /\ pc = "eval_model_return"
    /\ IF Len(eoe_ret) = 5
       THEN /\ em_ret' = <<eoe_ret[1], eoe_ret[2], eoe_ret[3], eoe_ret[4],
                           "elapsed", eoe_ret[5]>>
            /\ pc' = "done"
            /\ error' = error
       ELSE Raise("ValueError") /\ em_ret' = em_ret
    /\ UNCHANGED fwdVars
    /\ UNCHANGED <<caller, dataset, batch_size, return_preds, return_pairs,
                   checkpoint, loaded, training, grad_enabled, batch_idx, data,
                   losses, y_true, y_pred, cat, eoe_ret,
                   forward_log, update_log, batch_log, load_calls>>

Next ==
    \/ TorchLoad
    \/ LoadStateDict
    \/ ModelEval
    \/ EnterNoGrad
    \/ Batch
    \/ ExitLoop
    \/ Pad
    \/ Concatenate
    \/ MetricsReturn
    \/ EvalModelReturn

\* ======================================================================
\* Forward pass of AttendAndDiscriminate, on tensor shapes
\* ======================================================================
MaxB == 2           \* windows per batch: 1..MaxB
MaxT == 6           \* time steps per window: 1..MaxT
MaxC == 2           \* sensor channels, and input_dim: 1..MaxC
MaxFilterNum == 2   \* filter_num: 1..MaxFilterNum
MaxFilterSize == 2  \* filter_size: 1..MaxFilterSize
MaxHidden == 2      \* hidden_dim: 1..MaxHidden
MaxClass == 2       \* num_class: 1..MaxClass

\* what a layer yields when its input does not fit: a shape no tensor has
ShapeError == <<-1>>

\* variant: the convolution pads its input ("same")
Conv2dShape_SamePadding(s, cin, cout, kh, kw) ==
    IF Len(s) = 4 /\ s[2] = cin
    THEN <<s[1], cout, s[3], s[4]>>
    ELSE ShapeError

\* nn.Conv2d(cin, cout, (kh, kw)), stride 1 and no padding
Conv2dShape(s, cin, cout, kh, kw) ==
    IF Len(s) = 4 /\ s[2] = cin /\ s[3] >= kh /\ s[4] >= kw
    THEN <<s[1], cout, s[3] - kh + 1, s[4] - kw + 1>>
    ELSE ShapeError

\* conv1d(ni, no): nn.Conv1d with ks=1, stride=1, padding=0
conv1d(s, ni, no) ==
    IF Len(s) = 3 /\ s[2] = ni THEN <<s[1], no, s[3]>> ELSE ShapeError

\* torch.bmm
bmm(a, b) ==
    IF Len(a) = 3 /\ Len(b) = 3 /\ a[1] = b[1] /\ a[3] = b[2]
    THEN <<a[1], a[2], b[3]>>
    ELSE ShapeError

\* nn.Linear(fin, fout) acts on the last dimension
Linear(s, fin, fout) ==
    IF Len(s) >= 1 /\ s[Len(s)] = fin
    THEN [i \in 1..Len(s) |-> IF i = Len(s) THEN fout ELSE s[i]]
    ELSE ShapeError

\* nn.GRU(input_size, hidden_size, bidirectional=...), sequence first
GRU(s, input_size, hidden_size, bidirectional) ==
    IF Len(s) = 3 /\ s[3] = input_size
    THEN <<s[1], s[2], IF bidirectional THEN 2 * hidden_size ELSE hidden_size>>
    ELSE ShapeError

\* SelfAttention.__init__: output channels of the query and key projections
QueryKeyChannels(n_channels, div) ==
    IF n_channels > 1 THEN n_channels \div div ELSE n_channels

\* SelfAttention.forward on an input (batch, channels, a, b)
SelfAttentionForward(size, n_channels, div) ==
    LET xv == <<size[1], size[2], size[3] * size[4]>>       \* x.view(*size[:2], -1)
        f == conv1d(xv, n_channels, QueryKeyChannels(n_channels, div))
        g == conv1d(xv, n_channels, QueryKeyChannels(n_channels, div))
        h == conv1d(xv, n_channels, n_channels)
    IN IF ShapeError \in {f, g, h} THEN ShapeError
       ELSE LET beta == bmm(<<f[1], f[3], f[2]>>, g)         \* f.permute(0, 2, 1)
            IN IF beta = ShapeError THEN ShapeError
               ELSE LET o == bmm(h, beta)                    \* gamma * bmm + x
                    IN IF o # xv THEN ShapeError ELSE size   \* o.view(*size)

\* TemporalAttention.forward with self.fc = nn.Linear(fc_in, 1)
TemporalAttentionForward(s, fc_in) ==
    LET out == Linear(s, fc_in, 1)
    IN IF Len(s) # 3 \/ out = ShapeError THEN ShapeError
       ELSE <<s[2], s[3]>>          \* torch.sum(weights_att * x, 0)

\* FeatureExtractor.__init__: nn.GRU(filter_num * input_dim, hidden_dim, ...)
RnnInputSize(c) == c.filter_num * c.input_dim

\* FeatureExtractor.__init__: self.ta = TemporalAttention(hidden_dim)
TaInDim(c) == c.hidden_dim

\* AttendAndDiscriminate.__init__: Classifier(hidden_dim, num_class)
ClassifierInDim(c) == c.hidden_dim

\* in and out channels of conv1 .. conv4
ConvIn(c, i) == IF i = 1 THEN 1 ELSE c.filter_num
ConvOut(c, i) == c.filter_num

\* the constructor's defaults and the 4 x 24 x 9 batch of the end-to-end case
Scenario ==
    [B |-> 4, T |-> 24, C |-> 9, input_dim |-> 9, hidden_dim |-> 128,
     filter_num |-> 64, filter_size |-> 5, enc_is_bidirectional |-> FALSE,
     sa_div |-> 1, num_class |-> 5]

\* constructor arguments and input sizes; sa_div <= filter_num keeps the
\* query / key projections at one channel or more (filter_num // sa_div >= 1)
Configs ==
    {c \in [B : 1..MaxB, T : 1..MaxT, C : 1..MaxC, input_dim : 1..MaxC,
            hidden_dim : 1..MaxHidden, filter_num : 1..MaxFilterNum,
            filter_size : 1..MaxFilterSize, enc_is_bidirectional : BOOLEAN,
            sa_div : 1..MaxFilterNum, num_class : 1..MaxClass] :
        c.sa_div <= c.filter_num}
    \cup {Scenario}

NoConfig == [B |-> 0]

FwdInit ==
    /\ cfg \in Configs
    /\ fpc = "unsqueeze"
    /\ x = <<cfg.B, cfg.T, cfg.C>>
    /\ t = 0
    /\ refined = <<>>
    /\ z = NoValue
    /\ logits = NoValue
    /\ shape_log = <<>>

\* a layer was applied: go on, or stop at the shape error it raised
Step(op, out, next) ==
    /\ shape_log' = Append(shape_log, [op |-> op, in |-> x, out |-> out])
    /\ x' = out
    /\ fpc' = IF out = ShapeError THEN "error" ELSE next

\* x = x.unsqueeze(1)
Unsqueeze ==
    /\ fpc = "unsqueeze"
    /\ Step("unsqueeze", <<x[1], 1, x[2], x[3]>>, "conv1")
    /\ UNCHANGED <<cfg, t, refined, z, logits>>
    /\ UNCHANGED evalVars

\* x = self.activation(self.conv_i(x)), i = 1 .. 4
Conv(i) ==
    /\ fpc = <<"conv1", "conv2", "conv3", "conv4">>[i]
    /\ Step("conv", Conv2dShape(x, ConvIn(cfg, i), ConvOut(cfg, i), cfg.filter_size, 1),
            <<"conv2", "conv3", "conv4", "sa">>[i])
    /\ UNCHANGED <<cfg, t, refined, z, logits>>
    /\ UNCHANGED evalVars

\* self.sa(torch.unsqueeze(x[:, :, t, :], dim=3)) for one t of range(x.shape[2])
SelfAttend ==
    /\ fpc = "sa"
    /\ t < x[3]
    /\ LET slice == <<x[1], x[2], x[4], 1>>
           out == SelfAttentionForward(slice, cfg.filter_num, cfg.sa_div)
       IN /\ shape_log' = Append(shape_log, [op |-> "sa", in |-> slice, out |-> out])
          /\ fpc' = IF out = ShapeError THEN "error" ELSE "sa"
          /\ refined' = Append(refined, out)
    /\ t' = t + 1
    /\ UNCHANGED <<cfg, x, z, logits>>
    /\ UNCHANGED evalVars

\* torch.cat(..., dim=-1), permute(3, 0, 1, 2), reshape(T, B, -1), dropout
CatPermuteReshape ==
    /\ fpc = "sa"
    /\ t = x[3]
    /\ LET c == <<refined[1][1], refined[1][2], refined[1][3], Len(refined)>>
           p == <<c[4], c[1], c[2], c[3]>>
       IN Step("reshape", <<p[1], p[2], p[3] * p[4]>>, "rnn")
    /\ UNCHANGED <<cfg, t, refined, z, logits>>
    /\ UNCHANGED evalVars

\* outputs, h = self.rnn(x)
Rnn ==
    /\ fpc = "rnn"
    /\ Step("rnn", GRU(x, RnnInputSize(cfg), cfg.hidden_dim, cfg.enc_is_bidirectional),
            "ta")
    /\ UNCHANGED <<cfg, t, refined, z, logits>>
    /\ UNCHANGED evalVars

\* out = self.ta(outputs)
TemporalAttend ==
    /\ fpc = "ta"
    /\ Step("ta", TemporalAttentionForward(x, TaInDim(cfg)), "classifier")
    /\ UNCHANGED <<cfg, t, refined, z, logits>>
    /\ UNCHANGED evalVars

\* z = feature.div(norm.expand_as(feature)); logits = self.classifier(dropout(feature))
NormalizeClassify ==
    /\ fpc = "classifier"
    /\ LET out == Linear(x, ClassifierInDim(cfg), cfg.num_class)
       IN /\ shape_log' = Append(shape_log, [op |-> "classifier", in |-> x, out |-> out])
          /\ fpc' = IF out = ShapeError THEN "error" ELSE "done"
          /\ z' = IF out = ShapeError THEN z ELSE x
          /\ logits' = IF out = ShapeError THEN logits ELSE out
    /\ UNCHANGED <<cfg, x, t, refined>>
    /\ UNCHANGED evalVars

NextForward ==
    \/ Unsqueeze
    \/ \E i \in 1..4 : Conv(i)
    \/ SelfAttend
    \/ CatPermuteReshape
    \/ Rnn
    \/ TemporalAttend
    \/ NormalizeClassify

\* ======================================================================
\* Specifications
\* ======================================================================
FwdIdle ==
    /\ cfg = NoConfig
    /\ fpc = "idle"
    /\ x = NoValue
    /\ t = 0
    /\ refined = <<>>
    /\ z = NoValue
    /\ logits = NoValue
    /\ shape_log = <<>>

EvalIdle ==
    /\ caller = "none"
    /\ pc = "idle"
    /\ dataset = [prefix |-> "train", targets |-> <<>>, W |-> 1]
    /\ batch_size = 1
    /\ return_preds = FALSE
    /\ return_pairs = FALSE
    /\ checkpoint = "ok"
    /\ loaded = FALSE
    /\ training = TRUE
    /\ grad_enabled = TRUE
    /\ batch_idx = 0
    /\ data = Unbound
    /\ losses = NoValue
    /\ y_true = <<>>
    /\ y_pred = <<>>
    /\ cat = NoValue
    /\ eoe_ret = NoValue
    /\ em_ret = NoValue
    /\ error = None
    /\ forward_log = <<>>
    /\ update_log = <<>>
    /\ batch_log = <<>>
    /\ load_calls = 0

\* the evaluation driver
Init == EvalInit /\ FwdIdle
Spec == Init /\ [][Next]_vars

\* the forward pass
InitForward == FwdInit /\ EvalIdle
SpecForward == InitForward /\ [][NextForward]_vars

\* ======================================================================
\* Properties of the evaluation driver (checked under Spec)
\* ======================================================================
RECURSIVE SumN(_)
SumN(log) == IF log = <<>> THEN 0 ELSE Len(Head(log).target) + SumN(Tail(log))

RECURSIVE SumLN(_)
SumLN(log) ==
    IF log = <<>> THEN 0
    ELSE Head(log).loss * Len(Head(log).target) + SumLN(Tail(log))

RECURSIVE RawTrue(_)
\* the targets of the batches, in loader order
RawTrue(log) == IF log = <<>> THEN <<>> ELSE Head(log).target \o RawTrue(Tail(log))

RECURSIVE RawPred(_)
\* the predictions of the batches, in loader order
RawPred(log) ==
    IF log = <<>> THEN <<>> ELSE Head(log).predictions \o RawPred(Tail(log))

\* real predictions that match their target
RawCorrect ==
    Cardinality({i \in 1..Len(RawTrue(batch_log)) :
                    RawTrue(batch_log)[i] = RawPred(batch_log)[i]})

IsPrefix(a, b) == Len(a) <= Len(b) /\ SubSeq(b, 1, Len(a)) = a

Concatenated == cat # NoValue
Returned == eoe_ret # NoValue
\* placeholders the run has added
Placeholders == IF IsTestSplit(dataset) THEN data[2] - 1 ELSE 0

\* C1: on a test loader with at least one batch the concatenated true and
\* predicted sequences start with (W - 1) copies of the first ground-truth
\* label, and entry i + (W - 1) is the label / prediction of the i-th window.
C1_PlaceholdersPrepended ==
    (Concatenated /\ IsTestSplit(dataset)) =>
        LET w == data[2] - 1
        IN /\ \A i \in 1..w :
                /\ cat[1][i] = dataset.targets[1]
                /\ cat[2][i] = dataset.targets[1]
           /\ \A i \in 1..NumSamples :
                /\ cat[1][i + w] = RawTrue(batch_log)[i]
                /\ cat[2][i + w] = RawPred(batch_log)[i]

\* C2: with at least one batch, both concatenated sequences (and the
\* returned predictions) have length N on a non-test loader and N + (W - 1)
\* on a test loader, W the time dimension of the last batch.
C2_PaddedLengthIffTest ==
    Concatenated =>
        LET n == IF dataset.prefix = "test"
                 THEN NumSamples + (dataset.W - 1)
                 ELSE NumSamples
        IN /\ NumBatches >= 1
           /\ data[2] = dataset.W
           /\ Len(cat[1]) = n
           /\ Len(cat[2]) = n
           /\ (Returned /\ return_preds) => Len(eoe_ret[5].y_pred) = n

C2_Witness ==
    /\ Returned
    /\ return_preds
    /\ dataset.prefix = "test"
    /\ dataset.W = 2
    /\ NumBatches = 2
    /\ Len(eoe_ret[5].y_pred) = NumSamples + 1

\* C3: the accumulator is updated once per batch with (l_b, n_b) and the
\* returned loss is sum(l_b * n_b) / sum(n_b).
C3_WeightedMeanLoss ==
    Returned =>
        /\ Len(update_log) = NumBatches
        /\ \A b \in 1..NumBatches :
              update_log[b] = <<batch_log[b].loss, Len(batch_log[b].target)>>
        /\ eoe_ret[1][2] = SumN(batch_log)
        /\ eoe_ret[1][2] > 0
        /\ eoe_ret[1][1] * SumN(batch_log) = eoe_ret[1][2] * SumLN(batch_log)

\* two batches of sizes 2 and 1 whose losses differ: the weighted mean is
\* not the unweighted mean (l_1 + l_2) / 2
C3_Witness ==
    /\ Returned
    /\ Len(batch_log) = 2
    /\ Len(batch_log[1].target) = 2
    /\ Len(batch_log[2].target) = 1
    /\ batch_log[1].loss # batch_log[2].loss
    /\ eoe_ret[1][1] * 2 # eoe_ret[1][2] * (batch_log[1].loss + batch_log[2].loss)

\* C4: in eval_model the checkpoint is read and loaded before the inference
\* pass; a missing file, a missing key or a mismatch propagates: one load
\* attempt, no eval_one_epoch, no forward call, nothing returned.
C4_CheckpointBeforeInference ==
    caller = "eval_model" =>
        /\ load_calls <= 1
        /\ (pc \notin {"torch_load", "load_state_dict", "raised"}) =>
              (loaded /\ load_calls = 1 /\ checkpoint = "ok")
        /\ (forward_log # <<>> \/ ~training) => loaded
        /\ (checkpoint # "ok") =>
              /\ pc \in {"torch_load", "load_state_dict", "raised"}
              /\ ~loaded
              /\ training
              /\ forward_log = <<>>
              /\ eoe_ret = NoValue
              /\ em_ret = NoValue
              /\ (pc = "raised") =>
                    error = CASE checkpoint = "missing_file" -> "FileNotFoundError"
                              [] checkpoint = "missing_key" -> "KeyError"
                              [] OTHER -> "RuntimeError"

C4_Witness ==
    /\ caller = "eval_model"
    /\ checkpoint = "mismatch"
    /\ pc = "raised"
    /\ error = "RuntimeError"
    /\ load_calls = 1

\* C5: with zero batches eval_one_epoch returns nothing (so no loss of 0):
\* it ends by raising, for every prefix.
C5_EmptyLoaderRaises ==
    (NumBatches = 0) =>
        /\ eoe_ret = NoValue
        /\ em_ret = NoValue
        /\ pc \notin {"metrics", "eval_model_return", "done"}
        /\ (pc = "raised" /\ checkpoint = "ok") =>
              error = IF dataset.prefix = "test"
                      THEN "UnboundLocalError" ELSE "ValueError"
        /\ (~ENABLED Next) => pc = "raised"

C5_Witness ==
    /\ NumBatches = 0
    /\ dataset.prefix = "val"
    /\ pc = "raised"
    /\ error = "ValueError"
    /\ losses.count = 0

\* C6: return_preds gives a 5-tuple ending in the predictions whatever
\* return_pairs is; otherwise return_pairs gives a 5-tuple ending in the
\* (true, predicted) pair; otherwise the 4-tuple.  eval_model returns
\* (loss, acc, fm, fw, elapsed, predictions).
C6_ReturnShape ==
    /\ Returned =>
        /\ eoe_ret[1] = losses.avg
        /\ eoe_ret[3].average = "macro"
        /\ eoe_ret[4].average = "weighted"
        /\ return_preds =>
              /\ Len(eoe_ret) = 5
              /\ DOMAIN eoe_ret[5] = {"y_pred"}
              /\ eoe_ret[5].y_pred = cat[2]
        /\ (~return_preds /\ return_pairs) =>
              /\ Len(eoe_ret) = 5
              /\ DOMAIN eoe_ret[5] = {"pair"}
              /\ eoe_ret[5].pair = <<cat[1], cat[2]>>
        /\ (~return_preds /\ ~return_pairs) => Len(eoe_ret) = 4
    /\ (caller = "eval_model" /\ pc = "done") =>
        /\ Len(em_ret) = 6
        /\ \A i \in 1..4 : em_ret[i] = eoe_ret[i]
        /\ em_ret[5] = "elapsed"
        /\ DOMAIN em_ret[6] = {"y_pred"}
        /\ em_ret[6].y_pred = cat[2]
    /\ (em_ret # NoValue) => (caller = "eval_model" /\ pc = "done")

C6_Witness ==
    /\ caller = "eval_one_epoch"
    /\ pc = "done"
    /\ return_preds
    /\ return_pairs
    /\ Len(eoe_ret) = 5
    /\ Len(eoe_ret[5].y_pred) >= 2

\* C9 (state part): eval mode is set before the first batch is consumed, every
\* forward call runs in eval mode without gradient tracking, and every batch
\* gets one forward call, one accumulator update and one append to each list.
C9_EvalModeOncePerBatch ==
    /\ \A i \in 1..Len(forward_log) :
          /\ forward_log[i].idx = i
          /\ ~forward_log[i].training
          /\ ~forward_log[i].grad
    /\ (batch_idx > 0) => ~training
    /\ Len(forward_log) = batch_idx
    /\ Len(update_log) = batch_idx
    /\ (pc = "loop") => (Len(y_pred) = batch_idx /\ Len(y_true) = batch_idx)
    /\ (pc \in {"pad", "concatenate", "metrics", "eval_model_return", "done"}) =>
          batch_idx = NumBatches
    /\ \A b \in 1..batch_idx :
          /\ y_pred[b] = batch_log[b].predictions
          /\ y_true[b] = BatchTarget(b)

\* C9 (step part): the two lists only grow at their end.
C9_AppendOnly ==
    /\ IsPrefix(y_pred, y_pred')
    /\ IsPrefix(y_true, y_true')

\* C9: in every run the model is in eval mode before the first batch, every
\* forward call runs in eval mode with gradient tracking off, each batch gets
\* one forward call, one accumulator update and one append to each list, and
\* no step changes or removes an earlier entry of y_pred or y_true.
C9_EvalModeAppendOnly == []C9_EvalModeOncePerBatch /\ [][C9_AppendOnly]_vars

C9_Witness ==
    /\ pc = "done"
    /\ NumBatches = 3
    /\ Len(forward_log) = 3
    /\ Len(update_log) = 3
    /\ ~training

\* C10 (as claimed): the accuracy over the padded sequences is
\* (c + W - 1) / (N + W - 1) >= c / N, with equality only on non-test
\* loaders or when W = 1.
C10_EqualOnlyWhenUnpadded ==
    Returned =>
        LET c == RawCorrect
            n == NumSamples
            w == Placeholders
        IN /\ eoe_ret[2] = <<c + w, n + w>>
           /\ (c + w) * n >= c * (n + w)
           /\ ((c + w) * n = c * (n + w)) =>
                 (dataset.prefix # "test" \/ dataset.W = 1)

\* C10 (amended): ... with equality only on non-test loaders, when W = 1, or
\* when all N real predictions are correct.
C10_PlaceholdersCountCorrect ==
    Returned =>
        LET c == RawCorrect
            n == NumSamples
            w == Placeholders
        IN /\ eoe_ret[2] = <<c + w, n + w>>
           /\ (c + w) * n >= c * (n + w)
           /\ ((c + w) * n = c * (n + w)) =>
                 (dataset.prefix # "test" \/ dataset.W = 1 \/ c = n)

C10_Witness ==
    /\ Returned
    /\ dataset.prefix = "test"
    /\ dataset.W = 2
    /\ NumSamples = 3
    /\ RawCorrect = 1
    /\ eoe_ret[2] = <<2, 4>>

\* ======================================================================
\* Properties of the forward pass (checked under SpecForward)
\* ======================================================================
\* an input the model is built for, long enough for the four convolutions
ValidInput == cfg.C = cfg.input_dim /\ cfg.T > 4 * (cfg.filter_size - 1)
OutDim == IF cfg.enc_is_bidirectional THEN 2 * cfg.hidden_dim ELSE cfg.hidden_dim

\* C7: the recurrent layer yields 2 * hidden_dim features when bidirectional
\* (hidden_dim otherwise), the scoring layer of TemporalAttention and the
\* Classifier take that many, so forward succeeds with an embedding of that
\* dimension per window.
C7_BidirectionalDimsMatch ==
    ValidInput =>
        /\ fpc # "error"
        /\ (fpc = "ta") => (x[3] = OutDim /\ TaInDim(cfg) = OutDim)
        /\ (fpc = "classifier") => (x = <<cfg.B, OutDim>> /\ ClassifierInDim(cfg) = OutDim)
        /\ (fpc = "done") => z = <<cfg.B, OutDim>>

\* C8: without bidirectionality, for an input (B, T, C) with C = input_dim
\* and T > 4 * (filter_size - 1): each convolution shortens time by
\* filter_size - 1 and keeps C, SelfAttention keeps the shape at each of the
\* T - 4 * (filter_size - 1) steps, the encoder gets filter_num * C features,
\* the embedding is (B, hidden_dim) and the logits (B, num_class); the
\* 4 x 24 x 9 case gives logits (4, 5).
C8_ShapeContract ==
    (ValidInput /\ ~cfg.enc_is_bidirectional) =>
        /\ fpc # "error"
        /\ \A i \in 1..Len(shape_log) :
              LET e == shape_log[i]
              IN /\ (e.op = "conv") =>
                       /\ e.out[3] = e.in[3] - (cfg.filter_size - 1)
                       /\ e.out[4] = cfg.C
                       /\ e.out[1] = cfg.B
                 /\ (e.op = "sa") => e.out = e.in
                 /\ (e.op = "rnn") =>
                       /\ e.in = <<cfg.T - 4 * (cfg.filter_size - 1), cfg.B,
                                   cfg.filter_num * cfg.C>>
                       /\ e.out[3] = cfg.hidden_dim
        /\ (fpc = "sa") => x = <<cfg.B, cfg.filter_num,
                                 cfg.T - 4 * (cfg.filter_size - 1), cfg.C>>
        /\ (fpc = "done") =>
              /\ Cardinality({i \in 1..Len(shape_log) : shape_log[i].op = "conv"}) = 4
              /\ Cardinality({i \in 1..Len(shape_log) : shape_log[i].op = "sa"})
                    = cfg.T - 4 * (cfg.filter_size - 1)
              /\ z = <<cfg.B, cfg.hidden_dim>>
              /\ logits = <<cfg.B, cfg.num_class>>
              /\ (cfg.B = 4 /\ cfg.T = 24 /\ cfg.C = 9 /\ cfg.hidden_dim = 128
                    /\ cfg.num_class = 5) => logits = <<4, 5>>

C8_Witness ==
    /\ cfg = Scenario
    /\ fpc = "done"
    /\ Len(shape_log) = 17
    /\ z = <<4, 128>>
    /\ logits = <<4, 5>>

====
